---------------------------- MODULE Spec2Model ----------------------------
(***************************************************************************)
(* Model of the lecture-notes backend: the completion client              *)
(* (GeminiService._call_api), the response normaliser                     *)
(* (_clean_json_response, summarize, generate_notes) and the              *)
(* transcription relay (transcribe_ws).                                   *)
(*                                                                         *)
(* A text is a sequence of one-character strings.  A transcript, which    *)
(* can be 150000 characters long, is a sequence of runs [ch, n] (n copies *)
(* of the character ch).                                                   *)
(***************************************************************************)
EXTENDS Integers, Sequences, FiniteSets, TLC

(***************************************************************************)
(* Bounds of the model.                                                    *)
(***************************************************************************)
MaxTokens == 3
OverLimit == 1
MaxTime == 1
MaxFrames == 2
MaxMsgs == 2
MaxTicks == 2
MaxAdmitted == 7

(***************************************************************************)
(* Program constants.                                                      *)
(***************************************************************************)
MAX_INPUT_CHARS == 150000
max_retries == 5
ErrTextMax == 300

Min(a, b) == IF a < b THEN a ELSE b

(***************************************************************************)
(* Characters.                                                             *)
(***************************************************************************)
QUOTE == "\""
NEWLINE == "\n"
SPACE == " "
\* the grave accent (U+0060), which a TLA+ string cannot hold, by name
BACKTICK == "grave"
FENCE == <<BACKTICK, BACKTICK, BACKTICK>>
\* str.strip() removes these (and other white space outside the alphabet)
PyWhitespace == {SPACE, NEWLINE, "\t", "\r"}
\* json.decoder.WHITESPACE
JsonWhitespace == {SPACE, NEWLINE, "\t", "\r"}
Digits == {"0", "1", "2", "3", "4", "5", "6", "7", "8", "9"}
DigitVal(c) == CASE c = "0" -> 0 [] c = "1" -> 1 [] c = "2" -> 2 [] c = "3" -> 3
                 [] c = "4" -> 4 [] c = "5" -> 5 [] c = "6" -> 6 [] c = "7" -> 7
                 [] c = "8" -> 8 [] c = "9" -> 9

(***************************************************************************)
(* Python string operations on texts.                                      *)
(***************************************************************************)
\* text[:n] for n >= 0
Take(text, n) == SubSeq(text, 1, Min(Len(text), n))
\* text[n:] for n >= 0
Drop(text, n) == SubSeq(text, n + 1, Len(text))
\* text[:-n] for n > 0
DropLast(text, n) == SubSeq(text, 1, Len(text) - n)

StartsWith(text, p) == /\ Len(text) >= Len(p)
                       /\ SubSeq(text, 1, Len(p)) = p
EndsWith(text, p) == /\ Len(text) >= Len(p)
                     /\ SubSeq(text, Len(text) - Len(p) + 1, Len(text)) = p

RECURSIVE LStrip(_)
LStrip(text) == IF text # <<>> /\ Head(text) \in PyWhitespace
                THEN LStrip(Tail(text)) ELSE text
RECURSIVE RStrip(_)
RStrip(text) == IF text # <<>> /\ text[Len(text)] \in PyWhitespace
                THEN RStrip(SubSeq(text, 1, Len(text) - 1)) ELSE text
\* text.strip()
Strip(text) == RStrip(LStrip(text))

\* text.index(c): the 0-based position of the first c, or -1 where Python
\* raises ValueError
RECURSIVE IndexFrom(_, _, _)
IndexFrom(text, c, i) == IF i > Len(text) THEN -1
                         ELSE IF text[i] = c THEN i - 1
                         ELSE IndexFrom(text, c, i + 1)
Index(text, c) == IndexFrom(text, c, 1)

(***************************************************************************)
(* _clean_json_response.  The result is [raised, text]: raised is TRUE     *)
(* where text.index("\n") raises ValueError (a leading fence with no line  *)
(* break after it).                                                        *)
(***************************************************************************)
CleanFailed == [raised |-> TRUE, text |-> <<>>]
\* a trailing fence left in place
CleanTail_Keep(text) == text
CleanTail(text) == IF EndsWith(text, FENCE) THEN DropLast(text, 3) ELSE text
_clean_json_response(text0) ==
    LET text == Strip(text0) IN
    IF StartsWith(text, FENCE)
    THEN LET first_newline == Index(text, NEWLINE) IN
         IF first_newline = -1 THEN CleanFailed
         ELSE [raised |-> FALSE,
               text |-> Strip(CleanTail(Drop(text, first_newline + 1)))]
    ELSE [raised |-> FALSE, text |-> Strip(CleanTail(text))]

(***************************************************************************)
(* JSON values, as json.loads builds them.  Every value is a record of the *)
(* same shape so that any two values can be compared: t is the type, n the *)
(* number, s the string, items the elements of an array or the values of   *)
(* an object, keys the keys of an object (keys[i] maps to items[i]).       *)
(***************************************************************************)
JVal(t, n, s, keys, items) ==
    [t |-> t, n |-> n, s |-> s, keys |-> keys, items |-> items]
JNull == JVal("null", 0, <<>>, <<>>, <<>>)
JBool(b) == JVal(IF b THEN "true" ELSE "false", 0, <<>>, <<>>, <<>>)
JNum(n) == JVal("num", n, <<>>, <<>>, <<>>)
JStr(s) == JVal("str", 0, s, <<>>, <<>>)
JArr(items) == JVal("arr", 0, <<>>, <<>>, items)
JObj(keys, items) == JVal("obj", 0, <<>>, keys, items)

\* dict[k] = v: a repeated key keeps its place and takes the last value
ObjPut(keys, items, k, v) ==
    IF \E i \in 1..Len(keys) : keys[i] = k
    THEN [keys |-> keys,
          items |-> [i \in 1..Len(items) |-> IF keys[i] = k THEN v ELSE items[i]]]
    ELSE [keys |-> Append(keys, k), items |-> Append(items, v)]

HasKey(v, k) == v.t = "obj" /\ \E i \in 1..Len(v.keys) : v.keys[i] = k
\* v[k] for an object v that has the key k
Get(v, k) == v.items[CHOOSE i \in 1..Len(v.keys) : v.keys[i] = k]

(***************************************************************************)
(* json.loads for texts over an alphabet without backslash, minus sign,    *)
(* decimal point or exponent.  A parse step returns [ok, val, next]: next  *)
(* is the position after the value.                                        *)
(***************************************************************************)
ParseFail == [ok |-> FALSE, val |-> JNull, next |-> 0]
ParseOk(v, next) == [ok |-> TRUE, val |-> v, next |-> next]

RECURSIVE SkipWs(_, _)
SkipWs(s, i) == IF i <= Len(s) /\ s[i] \in JsonWhitespace
                THEN SkipWs(s, i + 1) ELSE i

\* position of the closing quote of a string whose content starts at i;
\* 0 if the string is unterminated or holds a control character
ScanString(s, i) ==
    LET stops == {j \in i..Len(s) : s[j] \in {QUOTE, NEWLINE, "\t", "\r"}} IN
    IF stops = {} THEN 0
    ELSE LET first == CHOOSE j \in stops : \A k \in stops : j <= k IN
         IF s[first] = QUOTE THEN first ELSE 0

RECURSIVE ScanDigits(_, _)
ScanDigits(s, i) == IF i <= Len(s) /\ s[i] \in Digits
                    THEN ScanDigits(s, i + 1) ELSE i

RECURSIVE NumVal(_, _, _)
NumVal(s, i, j) == IF j < i THEN 0
                   ELSE 10 * NumVal(s, i, j - 1) + DigitVal(s[j])

Matches(s, i, lit) == /\ i + Len(lit) - 1 <= Len(s)
                      /\ SubSeq(s, i, i + Len(lit) - 1) = lit

LitNull == <<"n", "u", "l", "l">>
LitTrue == <<"t", "r", "u", "e">>
LitFalse == <<"f", "a", "l", "s", "e">>

RECURSIVE ParseValue(_, _)
RECURSIVE ParseElems(_, _, _)
RECURSIVE ParseMembers(_, _, _, _)

\* JSONArray after "[" and, for the second element on, after ","
ParseElems(s, i, acc) ==
    LET r == ParseValue(s, i) IN
    IF ~r.ok THEN ParseFail
    ELSE LET k == SkipWs(s, r.next) IN
         IF k > Len(s) THEN ParseFail
         ELSE IF s[k] = "]" THEN ParseOk(JArr(Append(acc, r.val)), k + 1)
         ELSE IF s[k] = "," THEN ParseElems(s, SkipWs(s, k + 1), Append(acc, r.val))
         ELSE ParseFail

\* JSONObject at the opening quote of a key
ParseMembers(s, i, keys, items) ==
    IF i > Len(s) \/ s[i] # QUOTE THEN ParseFail
    ELSE LET e == ScanString(s, i + 1) IN
         IF e = 0 THEN ParseFail
         ELSE LET key == SubSeq(s, i + 1, e - 1)
                  c == SkipWs(s, e + 1) IN
              IF c > Len(s) \/ s[c] # ":" THEN ParseFail
              ELSE LET r == ParseValue(s, SkipWs(s, c + 1)) IN
                   IF ~r.ok THEN ParseFail
                   ELSE LET put == ObjPut(keys, items, key, r.val)
                            k == SkipWs(s, r.next) IN
                        IF k > Len(s) THEN ParseFail
                        ELSE IF s[k] = "}"
                        THEN ParseOk(JObj(put.keys, put.items), k + 1)
                        ELSE IF s[k] = ","
                        THEN ParseMembers(s, SkipWs(s, k + 1), put.keys, put.items)
                        ELSE ParseFail

\* scanner.py_make_scanner._scan_once
ParseValue(s, i) ==
    IF i > Len(s) THEN ParseFail
    ELSE IF s[i] = QUOTE
    THEN LET e == ScanString(s, i + 1) IN
         IF e = 0 THEN ParseFail ELSE ParseOk(JStr(SubSeq(s, i + 1, e - 1)), e + 1)
    ELSE IF s[i] = "{"
    THEN LET j == SkipWs(s, i + 1) IN
         IF j <= Len(s) /\ s[j] = "}" THEN ParseOk(JObj(<<>>, <<>>), j + 1)
         ELSE ParseMembers(s, j, <<>>, <<>>)
    ELSE IF s[i] = "["
    THEN LET j == SkipWs(s, i + 1) IN
         IF j <= Len(s) /\ s[j] = "]" THEN ParseOk(JArr(<<>>), j + 1)
         ELSE ParseElems(s, j, <<>>)
    ELSE IF Matches(s, i, LitNull) THEN ParseOk(JNull, i + 4)
    ELSE IF Matches(s, i, LitTrue) THEN ParseOk(JBool(TRUE), i + 4)
    ELSE IF Matches(s, i, LitFalse) THEN ParseOk(JBool(FALSE), i + 5)
    ELSE IF s[i] \in Digits
    THEN LET e == IF s[i] = "0" THEN i + 1 ELSE ScanDigits(s, i) IN
         ParseOk(JNum(NumVal(s, i, e - 1)), e)
    ELSE ParseFail

\* json.loads(s): [ok, val]; ok is FALSE where it raises JSONDecodeError
json_loads(s) ==
    LET r == ParseValue(s, SkipWs(s, 1)) IN
    IF r.ok /\ SkipWs(s, r.next) = Len(s) + 1
    THEN [ok |-> TRUE, val |-> r.val]
    ELSE [ok |-> FALSE, val |-> JNull]


(***************************************************************************)
(* Transcripts as runs.                                                    *)
(***************************************************************************)
Run(ch, n) == [ch |-> ch, n |-> n]

RECURSIVE LenRuns(_)
LenRuns(r) == IF r = <<>> THEN 0 ELSE Head(r).n + LenRuns(Tail(r))

\* the character at position i (1-based) of a transcript of at least i characters
RECURSIVE CharAt(_, _)
CharAt(r, i) == IF i <= Head(r).n THEN Head(r).ch ELSE CharAt(Tail(r), i - Head(r).n)

\* transcript[:k] for k >= 0
RECURSIVE TakeRuns(_, _)
TakeRuns(r, k) == IF r = <<>> \/ k = 0 THEN <<>>
                  ELSE IF Head(r).n <= k
                  THEN <<Head(r)>> \o TakeRuns(Tail(r), k - Head(r).n)
                  ELSE <<Run(Head(r).ch, k)>>

(***************************************************************************)
(* The documents of summarize and generate_notes.                          *)
(***************************************************************************)
K_quick == <<"q", "u", "i", "c", "k">>
K_detailed == <<"d", "e", "t", "a", "i", "l", "e", "d">>
K_exam == <<"e", "x", "a", "m">>
K_title == <<"t", "i", "t", "l", "e">>
K_points == <<"p", "o", "i", "n", "t", "s">>
K_sections == <<"s", "e", "c", "t", "i", "o", "n", "s">>
K_definitions == <<"d", "e", "f", "i", "n", "i", "t", "i", "o", "n", "s">>
K_key_examples == <<"k", "e", "y", "_", "e", "x", "a", "m", "p", "l", "e", "s">>
K_repeated_points == <<"r", "e", "p", "e", "a", "t", "e", "d", "_", "p", "o", "i", "n", "t", "s">>
K_potential_questions == <<"p", "o", "t", "e", "n", "t", "i", "a", "l", "_", "q", "u", "e", "s", "t", "i", "o", "n", "s">>
K_action_items == <<"a", "c", "t", "i", "o", "n", "_", "i", "t", "e", "m", "s">>
K_key_terms == <<"k", "e", "y", "_", "t", "e", "r", "m", "s">>
K_error == <<"e", "r", "r", "o", "r">>
K_message == <<"m", "e", "s", "s", "a", "g", "e">>
S_QuickSummary == <<"Q", "u", "i", "c", "k", " ", "S", "u", "m", "m", "a", "r", "y">>
S_DetailedSummary == <<"D", "e", "t", "a", "i", "l", "e", "d", " ", "S", "u", "m", "m", "a", "r", "y">>
S_ExamSummary == <<"E", "x", "a", "m", "-", "F", "o", "c", "u", "s", "e", "d", " ", "S", "u", "m", "m", "a", "r", "y">>
S_LectureNotes == <<"L", "e", "c", "t", "u", "r", "e", " ", "N", "o", "t", "e", "s">>

\* the except branch of summarize: the raw completion text as the only point
SummaryFallback(text) ==
    JObj(<<K_quick, K_detailed, K_exam>>,
         <<JObj(<<K_title, K_points>>, <<JStr(S_QuickSummary), JArr(<<JStr(text)>>)>>),
           JObj(<<K_title, K_sections>>, <<JStr(S_DetailedSummary), JArr(<<>>)>>),
           JObj(<<K_title, K_definitions, K_key_examples, K_repeated_points,
                  K_potential_questions>>,
                <<JStr(S_ExamSummary), JArr(<<>>), JArr(<<>>), JArr(<<>>),
                  JArr(<<>>)>>)>>)

\* the except branch of generate_notes
NotesFallback ==
    JObj(<<K_title, K_sections, K_action_items, K_key_terms>>,
         <<JStr(S_LectureNotes), JArr(<<>>), JArr(<<>>), JArr(<<>>)>>)

Fallback(o, text) == IF o = "summarize" THEN SummaryFallback(text) ELSE NotesFallback

\* lines 140-154 and 159-168: [raised, doc]; raised is TRUE where the
\* ValueError of _clean_json_response leaves the method
Normalize(o, text) ==
    LET raw == _clean_json_response(text) IN
    IF raw.raised THEN [raised |-> TRUE, doc |-> JNull]
    ELSE LET parsed == json_loads(raw.text) IN
         [raised |-> FALSE,
          doc |-> IF parsed.ok THEN parsed.val ELSE Fallback(o, text)]

(***************************************************************************)
(* The error message of _call_api for a non-200 response (lines 128-133).  *)
(***************************************************************************)
RECURSIVE DigitsOf(_)
DigitsOf(n) ==
    LET d == CHOOSE c \in Digits : DigitVal(c) = n % 10 IN
    IF n < 10 THEN <<d>> ELSE Append(DigitsOf(n \div 10), d)

\* str(v) for the JSON values whose str() the alphabet can spell
PyStr(v) == CASE v.t = "str" -> v.s
              [] v.t = "num" -> DigitsOf(v.n)
              [] v.t = "null" -> <<"N", "o", "n", "e">>
              [] v.t = "true" -> <<"T", "r", "u", "e">>
              [] v.t = "false" -> <<"F", "a", "l", "s", "e">>

\* body.get("error", {}).get("message", resp.text[:300]); any exception
\* (body is not JSON, body or body["error"] is not an object) gives resp.text[:300]
ErrorMsg(text) ==
    LET body == json_loads(text)
        dflt == Take(text, ErrTextMax) IN
    IF ~body.ok \/ body.val.t # "obj" THEN dflt
    ELSE IF ~HasKey(body.val, K_error) THEN dflt
    ELSE LET err == Get(body.val, K_error) IN
         IF err.t # "obj" THEN dflt
         ELSE IF HasKey(err, K_message) THEN PyStr(Get(err, K_message))
         ELSE dflt

RECURSIVE Pow2(_)
Pow2(n) == IF n = 0 THEN 1 ELSE 2 * Pow2(n - 1)
\* a backoff that grows by a constant step
Backoff_Linear(attempt) == (attempt + 1) * 5
\* wait = 2 ** attempt * 5
Backoff(attempt) == Pow2(attempt) * 5


(***************************************************************************)
(* State of one call of GeminiService.summarize or generate_notes.         *)
(***************************************************************************)
VARIABLES
    op,            \* the method called: "none", "summarize", "generate_notes"
    transcript,    \* its argument
    user_content,  \* the user message of the payload
    pc,            \* _call_api: "idle", "post", "sleep", "returned", "raised"
    svc,           \* the method: "idle", "calling", "returned", "raised"
    attempt,       \* the loop variable of _call_api
    posts,         \* number of client.post calls made
    sleeps,        \* the arguments of asyncio.sleep, in order
    statuses,      \* the outcome of every post, in order (0: no response)
    resp,          \* the last response received
    text,          \* the value returned by _call_api
    doc,           \* the value returned by the method
    error,         \* the exception raised
    http           \* the response of the endpoint (status 0: none yet)

svcVars == <<op, transcript, user_content, pc, svc, attempt, posts, sleeps,
             statuses, resp, text, doc, error, http>>

(***************************************************************************)
(* State of one invocation of transcribe_ws (one relay session).           *)
(***************************************************************************)
VARIABLES
    token,         \* the token query parameter of the handshake
    now,           \* the time of the handshake
    api_key,       \* DEEPGRAM_API_KEY is set
    rpc,           \* position of the handler
    ws,            \* the client connection: "connecting", "open", "closed"
    client,        \* the client: "present", "gone" (it has disconnected)
    close_code,    \* the code given to ws.close (0: close not called)
    sent,          \* the events given to ws.send_json, in order
    dg,            \* the upstream session: "none", "open", "closed"
    dg_opens,      \* number of websockets.connect calls
    dg_sent,       \* what was given to dg.send, in order
    ws_in,         \* the binary frames received from the client, in order
    dg_in,         \* the messages received from the upstream session, in order
    c2d,           \* the task client_to_deepgram
    d2c,           \* the task deepgram_to_client
    escaped,       \* an exception has left the handler
    c2d_exit,      \* how client_to_deepgram ended: "none", "disconnect",
                   \* "error" (another exception), "cancelled"
    auth           \* what decode_token made of the same token at the same
                   \* time on the HTTP path (status 0: not called)

relayVars == <<token, now, api_key, rpc, ws, client, close_code, sent, dg,
               dg_opens, dg_sent, ws_in, dg_in, c2d, d2c, escaped, c2d_exit,
               auth>>

(***************************************************************************)
(* State kept between requests: the rate limiter of main.py and the        *)
(* lectures table.                                                         *)
(***************************************************************************)
VARIABLES
    clock,         \* time.time(), in seconds
    request_log,   \* request_log: for every key, the timestamps kept
    admitted,      \* for every key, the timestamps of the requests admitted
    served,        \* for every key, the endpoints that admitted a request
    verdict,       \* for every key, the outcome of its last request:
                   \* [status, t] (status 0: no request yet)
    lectures,      \* the rows of the lectures table, by id
    issued,        \* the ids given to rows so far
    reply          \* the answer to the last lecture request

rateVars == <<clock, request_log, admitted, served, verdict>>
lecVars == <<lectures, issued, reply>>
dbVars == <<rateVars, lecVars>>

vars == <<svcVars, relayVars, dbVars>>

\* the users of the model, and the keys of their AI requests
Users == {"u1", "u2"}
NoVerdict == [status |-> 0, t |-> 0]
NoRow == [owner |-> "", title |-> "", summary |-> "", notes |-> "", status |-> ""]
NoLectureReply == [op |-> "none", user |-> "", id |-> "", status |-> 0, rows |-> {}]
LectureIds == {"l1", "l2"}

\* no request has been made and the table is empty
DbRest ==
    /\ clock = 0
    /\ request_log = [k \in Users |-> <<>>]
    /\ admitted = [k \in Users |-> <<>>]
    /\ served = [k \in Users |-> {}]
    /\ verdict = [k \in Users |-> NoVerdict]
    /\ lectures = [id \in LectureIds |-> NoRow]
    /\ issued = {}
    /\ reply = NoLectureReply

NoResp == [status |-> 0, body |-> <<>>]
NoError == [kind |-> "none", status |-> 0, msg |-> <<>>]
\* RuntimeError(f"{resp.status_code}: {error_msg}")
StatusError(r) == [kind |-> "status", status |-> r.status, msg |-> ErrorMsg(r.body)]
\* RuntimeError("Max retries exceeded")
MaxRetriesError == [kind |-> "max_retries", status |-> 0, msg |-> <<>>]
\* the exception of client.post (time-out after 120 s, connection failure)
TransportError == [kind |-> "transport", status |-> 0, msg |-> <<>>]
\* the ValueError of text.index in _clean_json_response
CleanError == [kind |-> "value_error", status |-> 0, msg |-> <<>>]

(***************************************************************************)
(* The endpoints /api/summarize and /api/notes (main.py), for a request    *)
(* without lecture_id: the result of the method is returned, an exception  *)
(* becomes HTTPException(502, _extract_api_error(exc)).                    *)
(***************************************************************************)
M_Busy == <<"T", "h", "e", " ", "A", "I", " ", "s", "e", "r", "v", "i", "c", "e", " ", "i", "s", " ", "b", "u", "s", "y", ".", " ", "P", "l", "e", "a", "s", "e", " ", "w", "a", "i", "t", " ", "a", " ", "m", "o", "m", "e", "n", "t", " ", "a", "n", "d", " ", "t", "r", "y", " ", "a", "g", "a", "i", "n", ".">>
M_Auth == <<"A", "u", "t", "h", "e", "n", "t", "i", "c", "a", "t", "i", "o", "n", " ", "e", "r", "r", "o", "r", " ", "w", "i", "t", "h", " ", "A", "I", " ", "s", "e", "r", "v", "i", "c", "e", ".", " ", "P", "l", "e", "a", "s", "e", " ", "c", "o", "n", "t", "a", "c", "t", " ", "s", "u", "p", "p", "o", "r", "t", ".">>
M_Generic == <<"S", "o", "m", "e", "t", "h", "i", "n", "g", " ", "w", "e", "n", "t", " ", "w", "r", "o", "n", "g", " ", "w", "h", "i", "l", "e", " ", "p", "r", "o", "c", "e", "s", "s", "i", "n", "g", " ", "y", "o", "u", "r", " ", "r", "e", "q", "u", "e", "s", "t", ".", " ", "P", "l", "e", "a", "s", "e", " ", "t", "r", "y", " ", "a", "g", "a", "i", "n", ".">>
S_MaxRetries == <<"M", "a", "x", " ", "r", "e", "t", "r", "i", "e", "s", " ", "e", "x", "c", "e", "e", "d", "e", "d">>
S_NotFound == <<"s", "u", "b", "s", "t", "r", "i", "n", "g", " ", "n", "o", "t", " ", "f", "o", "u", "n", "d">>
W_429 == <<"4", "2", "9">>
W_401 == <<"4", "0", "1">>
W_403 == <<"4", "0", "3">>
W_rate == <<"r", "a", "t", "e">>
W_unauthorized == <<"u", "n", "a", "u", "t", "h", "o", "r", "i", "z", "e", "d">>

\* sub in text
Contains(txt, sub) == \E i \in 1..(Len(txt) - Len(sub) + 1) : Matches(txt, i, sub)
\* text.lower(), for the capitals of the alphabet
LowerChar(c) == CASE c = "R" -> "r" [] c = "U" -> "u" [] c = "T" -> "t"
                  [] c = "N" -> "n" [] c = "F" -> "f" [] OTHER -> c
Lower(txt) == [i \in 1..Len(txt) |-> LowerChar(txt[i])]

\* str(exc)
ExcStr(e) == CASE e.kind = "status" -> DigitsOf(e.status) \o <<":", " ">> \o e.msg
               [] e.kind = "max_retries" -> S_MaxRetries
               [] e.kind = "value_error" -> S_NotFound
               [] OTHER -> e.msg

\* the text of the exception returned to the caller
_extract_api_error_Raw(e) == ExcStr(e)
\* main.py lines 123-129
_extract_api_error(e) ==
    LET msg == ExcStr(e) IN
    IF Contains(msg, W_429) \/ Contains(Lower(msg), W_rate) THEN M_Busy
    ELSE IF \/ Contains(msg, W_401)
            \/ Contains(msg, W_403)
            \/ Contains(Lower(msg), W_unauthorized) THEN M_Auth
    ELSE M_Generic

Reply(status, detail) == [status |-> status, detail |-> detail]
NoReply == Reply(0, <<>>)
\* return result
EndpointReturns == Reply(200, <<>>)
\* raise HTTPException(502, _extract_api_error(exc))
EndpointRaises(e) == Reply(502, _extract_api_error(e))

SvcInit ==
    /\ op = "none"
    /\ transcript = <<>>
    /\ user_content = <<>>
    /\ pc = "idle"
    /\ svc = "idle"
    /\ attempt = 0
    /\ posts = 0
    /\ sleeps = <<>>
    /\ statuses = <<>>
    /\ resp = NoResp
    /\ text = <<>>
    /\ doc = JNull
    /\ error = NoError
    /\ http = NoReply

\* a transcript submitted whole
Truncate_None(t) == t
\* transcript[:MAX_INPUT_CHARS]
Truncate(t) == TakeRuns(t, MAX_INPUT_CHARS)

\* a retry on every failed status
ShouldRetry_AnyStatus(status, a) == status # 200 /\ a < max_retries - 1
\* a retry on 429 whatever the attempt
ShouldRetry_EveryAttempt(status, a) == status = 429
\* resp.status_code == 429 and attempt < max_retries - 1
ShouldRetry(status, a) == status = 429 /\ a < max_retries - 1

\* the content read from the wrong place of the response
ContentOf_Missing(r) == <<>>
\* data["choices"][0]["message"]["content"] of a 200 response
ContentOf(r) == r.body

\* the for statement: is there an iteration after iteration a
LoopContinues(a) == a + 1 < max_retries

\* summarize and generate_notes up to the first post of _call_api
Invoke(o, t) ==
    /\ pc = "idle"
    /\ op' = o
    /\ transcript' = t
    /\ user_content' = Truncate(t)
    /\ pc' = "post"
    /\ svc' = "calling"
    /\ attempt' = 0
    /\ UNCHANGED <<posts, sleeps, statuses, resp, text, doc, error, http>>
    /\ UNCHANGED <<relayVars, dbVars>>

summarize(t) == Invoke("summarize", t)
generate_notes(t) == Invoke("generate_notes", t)

\* the post answers 200: _call_api returns the content and the method
\* cleans and parses it
PostOk(R) ==
    /\ pc = "post"
    /\ \E r \in R :
          /\ r.status = 200
          /\ posts' = posts + 1
          /\ statuses' = Append(statuses, r.status)
          /\ resp' = r
          /\ text' = ContentOf(r)
          /\ pc' = "returned"
          /\ LET out == Normalize(op, ContentOf(r)) IN
             /\ svc' = IF out.raised THEN "raised" ELSE "returned"
             /\ doc' = out.doc
             /\ error' = IF out.raised THEN CleanError ELSE error
             /\ http' = IF out.raised THEN EndpointRaises(CleanError)
                        ELSE EndpointReturns
          /\ UNCHANGED <<op, transcript, user_content, attempt, sleeps>>
          /\ UNCHANGED <<relayVars, dbVars>>

\* the post answers 429 with attempts left: asyncio.sleep(wait) begins
PostThrottled(R) ==
    /\ pc = "post"
    /\ \E r \in R :
          /\ r.status # 200
          /\ ShouldRetry(r.status, attempt)
          /\ posts' = posts + 1
          /\ statuses' = Append(statuses, r.status)
          /\ resp' = r
          /\ sleeps' = Append(sleeps, Backoff(attempt))
          /\ pc' = "sleep"
          /\ UNCHANGED <<op, transcript, user_content, svc, attempt, text, doc,
                         error, http>>
          /\ UNCHANGED <<relayVars, dbVars>>

\* the post answers another status, or 429 on the last attempt
PostFail(R) ==
    /\ pc = "post"
    /\ \E r \in R :
          /\ r.status # 200
          /\ ~ShouldRetry(r.status, attempt)
          /\ posts' = posts + 1
          /\ statuses' = Append(statuses, r.status)
          /\ resp' = r
          /\ error' = StatusError(r)
          /\ http' = EndpointRaises(StatusError(r))
          /\ pc' = "raised"
          /\ svc' = "raised"
          /\ UNCHANGED <<op, transcript, user_content, attempt, sleeps, text, doc>>
          /\ UNCHANGED <<relayVars, dbVars>>

\* client.post raises: the exception leaves _call_api and the method
PostTimeout ==
    /\ pc = "post"
    /\ posts' = posts + 1
    /\ statuses' = Append(statuses, 0)
    /\ error' = TransportError
    /\ http' = EndpointRaises(TransportError)
    /\ pc' = "raised"
    /\ svc' = "raised"
    /\ UNCHANGED <<op, transcript, user_content, attempt, sleeps, resp, text, doc>>
    /\ UNCHANGED <<relayVars, dbVars>>

\* asyncio.sleep returns; continue; the next iteration, or the statement
\* after the loop
Wake ==
    /\ pc = "sleep"
    /\ attempt' = attempt + 1
    /\ IF LoopContinues(attempt)
       THEN /\ pc' = "post"
            /\ UNCHANGED <<svc, error, http>>
       ELSE /\ pc' = "raised"
            /\ svc' = "raised"
            /\ error' = MaxRetriesError
            /\ http' = EndpointRaises(MaxRetriesError)
    /\ UNCHANGED <<op, transcript, user_content, posts, sleeps, statuses, resp,
                   text, doc>>
    /\ UNCHANGED <<relayVars, dbVars>>


(***************************************************************************)
(* The relay before a connection arrives.                                  *)
(***************************************************************************)
Token(form, sub, exp, key, alg) ==
    [form |-> form, sub |-> sub, exp |-> exp, key |-> key, alg |-> alg]
AbsentToken == Token("absent", "", 0, "", "")

\* the state when the handler is entered
RelayStart(tok, t, key) ==
    /\ token = tok
    /\ now = t
    /\ api_key = key
    /\ rpc = "start"
    /\ ws = "connecting"
    /\ client = "present"
    /\ close_code = 0
    /\ sent = <<>>
    /\ dg = "none"
    /\ dg_opens = 0
    /\ dg_sent = <<>>
    /\ ws_in = <<>>
    /\ dg_in = <<>>
    /\ c2d = "none"
    /\ d2c = "none"
    /\ escaped = FALSE
    /\ c2d_exit = "none"
    /\ auth = [status |-> 0, detail |-> "", sub |-> ""]

RelayRest == RelayStart(AbsentToken, 0, FALSE)

(***************************************************************************)
(* Inputs: texts.                                                          *)
(***************************************************************************)
Fill(n) == [i \in 1..n |-> "x"]
Quoted(x) == <<QUOTE>> \o x \o <<QUOTE>>
Member(k, v) == Quoted(k) \o <<":">> \o v
RECURSIVE Join(_)
Join(parts) == IF parts = <<>> THEN <<>>
               ELSE IF Len(parts) = 1 THEN parts[1]
               ELSE parts[1] \o <<",">> \o Join(Tail(parts))
ObjText(members) == <<"{">> \o Join(members) \o <<"}">>
ArrText(elems) == <<"[">> \o Join(elems) \o <<"]">>

\* error bodies of the completion endpoint
MsgBody(m) == ObjText(<<Member(K_error, ObjText(<<Member(K_message, Quoted(m))>>))>>)
NumMsgBody == ObjText(<<Member(K_error, ObjText(<<Member(K_message, <<"7">>)>>))>>)
NoMsgBody(m) == ObjText(<<Member(K_error, ObjText(<<Member(K_title, Quoted(m))>>))>>)
NoErrorBody(m) == ObjText(<<Member(K_title, Quoted(m))>>)
StrErrorBody(m) == ObjText(<<Member(K_error, Quoted(m))>>)
ArrBody(m) == ArrText(<<Quoted(m)>>)

BodyLens == {1, ErrTextMax} \cup (ErrTextMax + 1 .. ErrTextMax + OverLimit)
\* bodies whose message holds one of the words _extract_api_error looks for
WordBodies == {MsgBody(<<"R", "a", "t", "e">>), MsgBody(<<"4", "0", "3">>)}
ErrBodies ==
    {NumMsgBody, <<>>} \cup WordBodies \cup
    UNION {{MsgBody(Fill(n)), NoMsgBody(Fill(n)), NoErrorBody(Fill(n)),
            StrErrorBody(Fill(n)), ArrBody(Fill(n)), Fill(n)} : n \in BodyLens}
ThrottleBodies == {Fill(1), MsgBody(Fill(ErrTextMax + 1))}
FailStatuses == {401, 500}

ApiContents == {<<"{", "}">>, <<"x">>, FENCE}
ApiResponses ==
    {[status |-> 200, body |-> c] : c \in ApiContents}
    \cup {[status |-> st, body |-> b] : st \in FailStatuses, b \in ErrBodies}
    \cup {[status |-> 429, body |-> b] : b \in ThrottleBodies}

\* transcripts around the limit
TranscriptLens == {2, MAX_INPUT_CHARS}
                  \cup (MAX_INPUT_CHARS + 1 .. MAX_INPUT_CHARS + OverLimit)
Transcripts ==
    {<<>>, <<Run("a", 1)>>}
    \cup {<<Run("a", n)>> : n \in TranscriptLens}
    \cup {<<Run("a", n - 1), Run("b", 1)>> : n \in TranscriptLens}
    \cup {<<Run("a", 1), Run("b", n - 1)>> : n \in TranscriptLens}

\* completion texts: every concatenation of at most MaxTokens tokens, some
\* whole documents, and each of these inside a fence
PayloadTokens == {FENCE, <<NEWLINE>>, <<"{">>, <<"}">>, <<"[">>, <<"]">>,
                  <<"7">>, <<QUOTE, "q", QUOTE, ":">>, <<",">>, <<"x">>}
RECURSIVE TokenTexts(_)
TokenTexts(n) == IF n = 0 THEN {<<>>}
                 ELSE LET shorter == TokenTexts(n - 1) IN
                      shorter \cup {a \o b : a \in shorter, b \in PayloadTokens}
EmptyArr == <<"[", "]">>
NotesDocText ==
    ObjText(<<Member(K_title, Quoted(<<"x">>)), Member(K_sections, EmptyArr),
              Member(K_action_items, EmptyArr), Member(K_key_terms, EmptyArr)>>)
SummaryDocText ==
    ObjText(<<Member(K_quick, ObjText(<<Member(K_title, Quoted(<<"x">>)),
                                        Member(K_points, ArrText(<<Quoted(<<"x">>)>>))>>)),
              Member(K_detailed, ObjText(<<Member(K_title, Quoted(<<"x">>)),
                                           Member(K_sections, EmptyArr)>>)),
              Member(K_exam, ObjText(<<Member(K_title, Quoted(<<"x">>)),
                                       Member(K_definitions, EmptyArr),
                                       Member(K_key_examples, EmptyArr),
                                       Member(K_repeated_points, EmptyArr),
                                       Member(K_potential_questions, EmptyArr)>>))>>)
PartialSummaryText ==
    ObjText(<<Member(K_quick, ObjText(<<Member(K_points, EmptyArr)>>))>>)
Payloads == TokenTexts(MaxTokens)
            \cup {NotesDocText, SummaryDocText, PartialSummaryText,
                  <<SPACE>> \o NotesDocText \o <<NEWLINE>>}

FenceOpen == FENCE \o <<"j", "s", "o", "n", NEWLINE>>
FenceClose == <<NEWLINE>> \o FENCE
Wrap(c) == FenceOpen \o c \o FenceClose
NormContents == Payloads \cup {Wrap(c) : c \in Payloads}
NormResponses ==
    {[status |-> 200, body |-> c] : c \in NormContents}
    \cup {[status |-> st, body |-> Fill(1)] : st \in {429, 500}}
NormTranscripts == {<<Run("a", 2)>>}

(***************************************************************************)
(* Specification of the completion client: every response sequence, error  *)
(* bodies and transcripts around their limits.                             *)
(***************************************************************************)
InitApi == SvcInit /\ RelayRest /\ DbRest

NextApi ==
    \/ \E t \in Transcripts : summarize(t)
    \/ \E t \in Transcripts : generate_notes(t)
    \/ PostOk(ApiResponses)
    \/ PostThrottled(ApiResponses)
    \/ PostFail(ApiResponses)
    \/ PostTimeout
    \/ Wake

SpecApi == InitApi /\ [][NextApi]_vars

(***************************************************************************)
(* Specification of the normaliser: the same operations, every completion  *)
(* text of NormContents.                                                   *)
(***************************************************************************)
InitNorm == SvcInit /\ RelayRest /\ DbRest

NextNorm ==
    \/ \E t \in NormTranscripts : summarize(t)
    \/ \E t \in NormTranscripts : generate_notes(t)
    \/ PostOk(NormResponses)
    \/ PostThrottled(NormResponses)
    \/ PostFail(NormResponses)
    \/ PostTimeout
    \/ Wake

SpecNorm == InitNorm /\ [][NextNorm]_vars


(***************************************************************************)
(* Properties of the completion client.                                    *)
(***************************************************************************)
AllThrottled == statuses # <<>> /\ \A i \in 1..Len(statuses) : statuses[i] = 429
BackoffSchedule == <<5, 10, 20, 40>>
Finished == pc \in {"returned", "raised"}

\* C1: while every attempt is answered 429, the sleeps made are the first
\* sleeps of 5, 10, 20, 40 (one after each attempt but the fifth), and the
\* call ends only after exactly 5 posts, by raising the error of status
\* 429 without returning a text.
C1_ThrottledEveryAttempt ==
    AllThrottled =>
        /\ posts = Len(statuses)
        /\ posts <= 5
        /\ sleeps = Take(BackoffSchedule, Min(posts, 4))
        /\ pc = "post" => Len(sleeps) = posts
        /\ Finished => /\ posts = 5
                       /\ sleeps = BackoffSchedule
                       /\ pc = "raised"
                       /\ svc = "raised"
                       /\ error.kind = "status"
                       /\ error.status = 429
                       /\ text = <<>>

C1_Witness == /\ pc = "raised"
              /\ statuses = <<429, 429, 429, 429, 429>>
              /\ sleeps = <<5, 10, 20, 40>>

\* C2: an attempt that ends with a status other than 200 and 429, or with
\* no response at all, is the last one: the call has failed, no post
\* follows it and no sleep follows it (the sleeps are those of the 429s
\* before it).
C2_OtherFailureIsFinal ==
    \A i \in 1..Len(statuses) :
        statuses[i] \notin {200, 429} =>
            /\ i = Len(statuses)
            /\ posts = i
            /\ Len(sleeps) = i - 1
            /\ \A j \in 1..(i - 1) : statuses[j] = 429
            /\ pc = "raised"
            /\ svc = "raised"
            /\ error.kind \in {"status", "transport"}
            /\ error.kind = "status" => error.status = statuses[i]

C2_Witness == /\ pc = "raised"
              /\ statuses = <<429, 429, 500>>
              /\ Len(sleeps) = 2

\* C3: a call makes at most 5 posts, every post but the last was answered
\* 429, and a 200 ends the call, which returns the content of that
\* response.
C3_AttemptsBounded ==
    /\ posts <= 5
    /\ posts = Len(statuses)
    /\ \A i \in 1..(Len(statuses) - 1) : statuses[i] = 429
    /\ \A i \in 1..Len(statuses) :
          statuses[i] = 200 => /\ i = Len(statuses)
                               /\ pc = "returned"
    /\ pc = "returned" => /\ statuses[Len(statuses)] = 200
                          /\ resp.status = 200
                          /\ text = resp.body
                          /\ Len(sleeps) = posts - 1

C3_Witness == /\ pc = "returned"
              /\ statuses = <<429, 429, 429, 429, 200>>
              /\ text = <<"x">>

\* C4: the upstream text in the error of a non-200 response is at most 300
\* characters long.
C4_ErrorTextTruncated ==
    error.kind = "status" => Len(error.msg) <= ErrTextMax

\* C8: the user content submitted is the first min(len, MAX_INPUT_CHARS)
\* characters of the transcript; a transcript within the limit is
\* submitted unchanged, and no transcript is refused (the method fails
\* only after a post).
Breaks(r) == {LenRuns(SubSeq(r, 1, k)) : k \in 0..Len(r)}
IsPrefixRuns(p, t) ==
    /\ LenRuns(p) <= LenRuns(t)
    /\ \A b \in Breaks(p) \cup Breaks(t) :
          \A i \in {b, b + 1} :
              (1 <= i /\ i <= LenRuns(p)) => CharAt(p, i) = CharAt(t, i)

C8_TranscriptTruncated ==
    pc # "idle" =>
        /\ LenRuns(user_content) = Min(LenRuns(transcript), MAX_INPUT_CHARS)
        /\ IsPrefixRuns(user_content, transcript)
        /\ LenRuns(transcript) <= MAX_INPUT_CHARS => user_content = transcript
        /\ svc = "raised" => posts >= 1

C8_Witness == /\ pc = "post"
              /\ LenRuns(transcript) > MAX_INPUT_CHARS
              /\ LenRuns(user_content) = MAX_INPUT_CHARS
              /\ Len(transcript) = 2

(***************************************************************************)
(* Properties of the normaliser.                                           *)
(***************************************************************************)
\* the text does not parse, with or without its fence
NonJson(c) == LET raw == _clean_json_response(c) IN
              raw.raised \/ ~json_loads(raw.text).ok

\* C5: for a completion text that is not JSON the method returns, and what
\* it returns is the fallback document of its schema.
C5_NonJsonGivesFallback ==
    (pc = "returned" /\ NonJson(resp.body)) =>
        /\ svc = "returned"
        /\ doc = Fallback(op, resp.body)

\* C6: a valid JSON text inside a fence ("```json\n" before, "\n```" after)
\* gives the document that the JSON text itself parses to.
IsWrapped(c) == /\ Len(c) >= Len(FenceOpen) + Len(FenceClose)
                /\ StartsWith(c, FenceOpen)
                /\ EndsWith(c, FenceClose)
Unwrapped(c) == SubSeq(c, Len(FenceOpen) + 1, Len(c) - Len(FenceClose))

C6_FencedSameAsPlain ==
    (pc = "returned" /\ IsWrapped(resp.body)
                     /\ json_loads(Unwrapped(resp.body)).ok) =>
        /\ svc = "returned"
        /\ doc = json_loads(Unwrapped(resp.body)).val

C6_Witness == /\ svc = "returned"
              /\ IsWrapped(resp.body)
              /\ json_loads(Unwrapped(resp.body)).ok
              /\ HasKey(doc, K_title)
              /\ HasKey(doc, K_key_terms)

\* C7: a returned document has every field of its schema.
HasKeys(v, ks) == \A k \in ks : HasKey(v, k)
SummarySchema(d) ==
    /\ HasKeys(d, {K_quick, K_detailed, K_exam})
    /\ HasKeys(Get(d, K_quick), {K_title, K_points})
    /\ HasKeys(Get(d, K_detailed), {K_title, K_sections})
    /\ HasKeys(Get(d, K_exam), {K_title, K_definitions, K_key_examples,
                                K_repeated_points, K_potential_questions})
NotesSchema(d) == HasKeys(d, {K_title, K_sections, K_action_items, K_key_terms})

C7_AllFieldsPresent ==
    svc = "returned" =>
        IF op = "summarize" THEN SummarySchema(doc) ELSE NotesSchema(doc)


(***************************************************************************)
(* The transcription relay: transcribe_ws.                                 *)
(***************************************************************************)
JWT_SECRET == "JWT_SECRET"
JWT_ALGORITHM == "HS256"
JWT_EXPIRE_HOURS == 72

\* a check of the signature that never looks at the expiry
jwt_decode_NoExpiry(tok, t) ==
    IF tok.form # "jwt" THEN "DecodeError"
    ELSE IF tok.alg # JWT_ALGORITHM THEN "InvalidAlgorithmError"
    ELSE IF tok.key # JWT_SECRET THEN "InvalidSignatureError"
    ELSE "ok"
\* pyjwt.decode(token, JWT_SECRET, algorithms=[JWT_ALGORITHM]) at time t:
\* "ok" or the exception raised
jwt_decode(tok, t) ==
    IF tok.form # "jwt" THEN "DecodeError"
    ELSE IF tok.alg # JWT_ALGORITHM THEN "InvalidAlgorithmError"
    ELSE IF tok.key # JWT_SECRET THEN "InvalidSignatureError"
    ELSE IF tok.exp <= t THEN "ExpiredSignatureError"
    ELSE "ok"

\* a token signed with another secret than the one decode uses
create_token_OtherSecret(user_id, t) ==
    Token("jwt", user_id, t + JWT_EXPIRE_HOURS, "other", JWT_ALGORITHM)
\* create_token(user_id) at time t (in hours)
create_token(user_id, t) ==
    Token("jwt", user_id, t + JWT_EXPIRE_HOURS, JWT_SECRET, JWT_ALGORITHM)

\* the result of decode_token: the payload, or the HTTPException
Payload(sub) == [status |-> 200, detail |-> "", sub |-> sub]
HTTPException(status, detail) == [status |-> status, detail |-> detail, sub |-> ""]
\* an expired token taken for a good one
decode_token_ExpiredOk(tok, t) ==
    IF jwt_decode(tok, t) \in {"ok", "ExpiredSignatureError"} THEN Payload(tok.sub)
    ELSE HTTPException(401, "Invalid token")
\* decode_token(token) at time t
decode_token(tok, t) ==
    LET out == jwt_decode(tok, t) IN
    IF out = "ok" THEN Payload(tok.sub)
    ELSE IF out = "ExpiredSignatureError" THEN HTTPException(401, "Token expired")
    ELSE HTTPException(401, "Invalid token")

\* not token
TokenMissing(tok) == tok.form = "absent"
\* the decode raises nothing and payload.get("sub") is not empty
TokenAccepted(tok, t) == jwt_decode(tok, t) = "ok" /\ tok.sub # ""

\* a relay that never takes the fallback branch
NotConfigured_Never(key) == FALSE
\* not DEEPGRAM_API_KEY
NotConfigured(key) == ~key

\* the events of ws.send_json
Event(type, txt, is_final, speech_final, start) ==
    [type |-> type, text |-> txt, is_final |-> is_final,
     speech_final |-> speech_final, start |-> start]
FallbackEvent == Event("fallback", "", FALSE, FALSE, 0)
\* the fallback event sent in place of the ready event
ReadyEvent_Fallback == Event("fallback", "", FALSE, FALSE, 0)
ReadyEvent == Event("ready", "", FALSE, FALSE, 0)
\* the ready event sent from the except clause
ErrorEvent_Ready == Event("ready", "", FALSE, FALSE, 0)
ErrorEvent == Event("error", "", FALSE, FALSE, 0)

\* a send or close on the client connection can fail only once the client
\* has gone; the server then either raises or drops the message
SendFails == IF client = "gone" THEN BOOLEAN ELSE {FALSE}

\* an upstream message: form is "garbage" (not JSON), "array" (JSON, not an
\* object) or "object"; for an object, its type, its channel ("absent",
\* "null", "object"), the alternatives of the channel ("absent", "empty",
\* "one"), the transcript of the first alternative ("" when absent), its
\* words ("absent", "empty", "untimed", "timed"), the start of the first
\* word, the start of the envelope (has_start, start) and the two flags
\* ("absent", "true", "false")
Envelope(form, type, channel, alts, txt, words, word_start, has_start, start, is_final, speech_final) ==
    [form |-> form, type |-> type, channel |-> channel, alts |-> alts,
     text |-> txt, words |-> words, word_start |-> word_start,
     has_start |-> has_start, start |-> start, is_final |-> is_final,
     speech_final |-> speech_final]

\* a flag that is true unless the envelope says false
Flag_DefaultTrue(v) == v # "false"
\* data.get(flag, False)
Flag(v) == v = "true"

\* lines 75-90 for one message: "skip" (nothing is sent, the loop goes on),
\* "crash" (an exception other than JSONDecodeError and KeyError ends the
\* task) or "event" (the event is given to ws.send_json)
Handle(m) ==
    LET skip == [outcome |-> "skip", event |-> ErrorEvent]
        crash == [outcome |-> "crash", event |-> ErrorEvent] IN
    IF m.form = "garbage" THEN skip
    ELSE IF m.form = "array" THEN crash
    ELSE IF m.type # "Results" THEN skip
    ELSE IF m.channel = "null" THEN crash
    ELSE IF m.channel = "absent" \/ m.alts = "absent" THEN skip
    ELSE IF m.alts = "empty" THEN crash
    ELSE IF m.text = "" THEN skip
    ELSE IF m.words = "untimed" THEN skip
    ELSE [outcome |-> "event",
          event |-> Event("transcript", m.text, Flag(m.is_final),
                          Flag(m.speech_final),
                          IF m.words = "timed" THEN m.word_start
                          ELSE IF m.has_start THEN m.start ELSE 0)]

\* lines 27-29: no token
RejectMissing ==
    /\ rpc = "start"
    /\ TokenMissing(token)
    /\ close_code' = 4001
    /\ ws' = "closed"
    /\ rpc' = "done"
    /\ UNCHANGED <<token, now, api_key, client, sent, dg, dg_opens, dg_sent,
                   ws_in, dg_in, c2d, d2c, escaped,
                   c2d_exit, auth>>
    /\ UNCHANGED <<svcVars, dbVars>>

\* lines 31-40: the decode raises or the payload has no subject
RejectInvalid ==
    /\ rpc = "start"
    /\ ~TokenMissing(token)
    /\ ~TokenAccepted(token, now)
    /\ close_code' = 4001
    /\ ws' = "closed"
    /\ rpc' = "done"
    /\ UNCHANGED <<token, now, api_key, client, sent, dg, dg_opens, dg_sent,
                   ws_in, dg_in, c2d, d2c, escaped,
                   c2d_exit, auth>>
    /\ UNCHANGED <<svcVars, dbVars>>

\* line 42: ws.accept()
Accept ==
    /\ rpc = "start"
    /\ ~TokenMissing(token)
    /\ TokenAccepted(token, now)
    /\ ws' = "open"
    /\ rpc' = IF NotConfigured(api_key) THEN "fallback" ELSE "connect"
    /\ UNCHANGED <<token, now, api_key, client, close_code, sent, dg, dg_opens,
                   dg_sent, ws_in, dg_in, c2d, d2c, escaped,
                   c2d_exit, auth>>
    /\ UNCHANGED <<svcVars, dbVars>>

\* the client disconnects
ClientLeaves ==
    /\ ws = "open"
    /\ client = "present"
    /\ rpc # "done"
    /\ client' = "gone"
    /\ UNCHANGED <<token, now, api_key, rpc, ws, close_code, sent, dg, dg_opens,
                   dg_sent, ws_in, dg_in, c2d, d2c, escaped,
                   c2d_exit, auth>>
    /\ UNCHANGED <<svcVars, dbVars>>

\* line 45: the fallback event; an exception leaves the handler
SendFallback ==
    /\ rpc = "fallback"
    /\ sent' = Append(sent, FallbackEvent)
    /\ \E fails \in SendFails :
          /\ rpc' = IF fails THEN "done" ELSE "fallback_close"
          /\ escaped' = fails
    /\ UNCHANGED <<token, now, api_key, ws, client, close_code, dg, dg_opens,
                   dg_sent, ws_in, dg_in, c2d, d2c,
                   c2d_exit, auth>>
    /\ UNCHANGED <<svcVars, dbVars>>

\* lines 46-47: ws.close() and return
CloseFallback ==
    /\ rpc = "fallback_close"
    /\ close_code' = 1000
    /\ ws' = "closed"
    /\ rpc' = "done"
    /\ \E fails \in SendFails : escaped' = fails
    /\ UNCHANGED <<token, now, api_key, client, sent, dg, dg_opens, dg_sent,
                   ws_in, dg_in, c2d, d2c,
                   c2d_exit, auth>>
    /\ UNCHANGED <<svcVars, dbVars>>

\* lines 52-55: websockets.connect succeeds
ConnectOk ==
    /\ rpc = "connect"
    /\ dg_opens' = dg_opens + 1
    /\ dg' = "open"
    /\ rpc' = "ready"
    /\ UNCHANGED <<token, now, api_key, ws, client, close_code, sent, dg_sent,
                   ws_in, dg_in, c2d, d2c, escaped,
                   c2d_exit, auth>>
    /\ UNCHANGED <<svcVars, dbVars>>

\* lines 52-55 and 101-102: websockets.connect raises
ConnectFail ==
    /\ rpc = "connect"
    /\ dg_opens' = dg_opens + 1
    /\ rpc' = "error"
    /\ UNCHANGED <<token, now, api_key, ws, client, close_code, sent, dg,
                   dg_sent, ws_in, dg_in, c2d, d2c, escaped,
                   c2d_exit, auth>>
    /\ UNCHANGED <<svcVars, dbVars>>

\* lines 56 and 94-97: the ready event, then both tasks are created and the
\* handler waits; if the send raises, the async with block is left
SendReady ==
    /\ rpc = "ready"
    /\ sent' = Append(sent, ReadyEvent)
    /\ \E fails \in SendFails :
          IF fails
          THEN /\ rpc' = "closing_exc"
               /\ UNCHANGED <<c2d, d2c>>
          ELSE /\ rpc' = "streaming"
               /\ c2d' = "running"
               /\ d2c' = "running"
    /\ UNCHANGED <<token, now, api_key, ws, client, close_code, dg, dg_opens,
                   dg_sent, ws_in, dg_in, escaped,
                   c2d_exit, auth>>
    /\ UNCHANGED <<svcVars, dbVars>>

\* a frame sent twice
dg_send_Twice(out, data) == out \o <<data, data>>
\* line 62: dg.send(data) on an open session, after out was sent
dg_send(out, data) == Append(out, data)

\* lines 61-62 and 68-69: a binary frame is received and given to dg.send,
\* which raises if the upstream session is no longer open
ForwardFrame(f) ==
    /\ c2d = "running"
    /\ client = "present"
    /\ Len(ws_in) < MaxFrames
    /\ ws_in' = Append(ws_in, f)
    /\ IF dg = "open"
       THEN /\ dg_sent' = dg_send(dg_sent, f)
            /\ UNCHANGED <<c2d, c2d_exit>>
       ELSE /\ c2d' = "done"
            /\ c2d_exit' = "error"
            /\ UNCHANGED dg_sent
    /\ UNCHANGED <<token, now, api_key, rpc, ws, client, close_code, sent, dg,
                   dg_opens, dg_in, d2c, escaped,
                   auth>>
    /\ UNCHANGED <<svcVars, dbVars>>

\* lines 61 and 68-69: a text message makes receive_bytes raise KeyError
ClientText ==
    /\ c2d = "running"
    /\ client = "present"
    /\ c2d' = "done"
    /\ c2d_exit' = "error"
    /\ UNCHANGED <<token, now, api_key, rpc, ws, client, close_code, sent, dg,
                   dg_opens, dg_sent, ws_in, dg_in, d2c, escaped,
                   auth>>
    /\ UNCHANGED <<svcVars, dbVars>>

\* a disconnect handled without a word to the upstream session
CloseStream_Silent(d, out) == out
\* lines 64-67: dg.send(json.dumps({"type": "CloseStream"})) on the session
\* in state d, after out was sent; the send raises unless the session is
\* open, and the exception is ignored
CloseStream(d, out) == IF d = "open" THEN Append(out, "CloseStream") ELSE out

\* lines 63-67: receive_bytes raises WebSocketDisconnect; CloseStream is
\* sent, and a failure of that send is ignored
ClientDisconnected ==
    /\ c2d = "running"
    /\ client = "gone"
    /\ dg_sent' = CloseStream(dg, dg_sent)
    /\ c2d' = "done"
    /\ c2d_exit' = "disconnect"
    /\ UNCHANGED <<token, now, api_key, rpc, ws, client, close_code, sent, dg,
                   dg_opens, ws_in, dg_in, d2c, escaped,
                   auth>>
    /\ UNCHANGED <<svcVars, dbVars>>

\* lines 73-92: one upstream message
UpstreamMessage(m) ==
    /\ d2c = "running"
    /\ dg = "open"
    /\ Len(dg_in) < MaxMsgs
    /\ dg_in' = Append(dg_in, m)
    /\ LET h == Handle(m) IN
       IF h.outcome = "event"
       THEN /\ sent' = Append(sent, h.event)
            /\ \E fails \in SendFails : d2c' = IF fails THEN "done" ELSE "running"
       ELSE /\ d2c' = IF h.outcome = "crash" THEN "done" ELSE "running"
            /\ UNCHANGED sent
    /\ UNCHANGED <<token, now, api_key, rpc, ws, client, close_code, dg,
                   dg_opens, dg_sent, ws_in, c2d, escaped,
                   c2d_exit, auth>>
    /\ UNCHANGED <<svcVars, dbVars>>

\* the upstream provider closes the session
UpstreamCloses ==
    /\ dg = "open"
    /\ dg' = "peer_closed"
    /\ UNCHANGED <<token, now, api_key, rpc, ws, client, close_code, sent,
                   dg_opens, dg_sent, ws_in, dg_in, c2d, d2c, escaped,
                   c2d_exit, auth>>
    /\ UNCHANGED <<svcVars, dbVars>>

\* lines 73 and 91-92: the iteration over dg ends
UpstreamEnded ==
    /\ d2c = "running"
    /\ dg = "peer_closed"
    /\ d2c' = "done"
    /\ UNCHANGED <<token, now, api_key, rpc, ws, client, close_code, sent, dg,
                   dg_opens, dg_sent, ws_in, dg_in, c2d, escaped,
                   c2d_exit, auth>>
    /\ UNCHANGED <<svcVars, dbVars>>

\* a pending task left to run
Cancel_Never(task) == task
\* t.cancel() for a task that has not finished
Cancel(task) == IF task = "running" THEN "cancelling" ELSE task

\* lines 94-99: asyncio.wait returns once a task is done; the pending tasks
\* are cancelled and the async with block is left
WaitReturns ==
    /\ rpc = "streaming"
    /\ c2d = "done" \/ d2c = "done"
    /\ c2d' = Cancel(c2d)
    /\ d2c' = Cancel(d2c)
    /\ rpc' = "closing"
    /\ UNCHANGED <<token, now, api_key, ws, client, close_code, sent, dg,
                   dg_opens, dg_sent, ws_in, dg_in, escaped,
                   c2d_exit, auth>>
    /\ UNCHANGED <<svcVars, dbVars>>

\* the event loop throws CancelledError into client_to_deepgram
C2dCancelled ==
    /\ c2d = "cancelling"
    /\ c2d' = "cancelled"
    /\ c2d_exit' = "cancelled"
    /\ UNCHANGED <<token, now, api_key, rpc, ws, client, close_code, sent, dg,
                   dg_opens, dg_sent, ws_in, dg_in, d2c, escaped,
                   auth>>
    /\ UNCHANGED <<svcVars, dbVars>>

\* the event loop throws CancelledError into deepgram_to_client
D2cCancelled ==
    /\ d2c = "cancelling"
    /\ d2c' = "cancelled"
    /\ UNCHANGED <<token, now, api_key, rpc, ws, client, close_code, sent, dg,
                   dg_opens, dg_sent, ws_in, dg_in, c2d, escaped,
                   c2d_exit, auth>>
    /\ UNCHANGED <<svcVars, dbVars>>

\* a session closed only when the block ends without an exception
aexit_NormalOnly(d, p) == IF p = "closing" THEN "closed" ELSE d
\* line 52: what the exit of the async with block, reached at position p of
\* the handler, makes of the session in state d
aexit(d, p) == "closed"

\* line 55: the exit of the async with block closes the upstream session;
\* after a normal exit the handler returns, after an exception it goes to
\* the except clause
CloseUpstream ==
    /\ rpc \in {"closing", "closing_exc"}
    /\ dg' = aexit(dg, rpc)
    /\ rpc' = IF rpc = "closing" THEN "done" ELSE "error"
    /\ UNCHANGED <<token, now, api_key, ws, client, close_code, sent, dg_opens,
                   dg_sent, ws_in, dg_in, c2d, d2c, escaped,
                   c2d_exit, auth>>
    /\ UNCHANGED <<svcVars, dbVars>>

\* lines 101-106: the error event; a failure of the send is ignored
SendError ==
    /\ rpc = "error"
    /\ sent' = Append(sent, ErrorEvent)
    /\ rpc' = "done"
    /\ UNCHANGED <<token, now, api_key, ws, client, close_code, dg, dg_opens,
                   dg_sent, ws_in, dg_in, c2d, d2c, escaped,
                   c2d_exit, auth>>
    /\ UNCHANGED <<svcVars, dbVars>>

\* auth.py lines 36-42 and 50: the same token, presented at the same time
\* as a bearer token, is decoded by decode_token
DecodeToken ==
    /\ auth.status = 0
    /\ ~TokenMissing(token)
    /\ auth' = decode_token(token, now)
    /\ UNCHANGED <<token, now, api_key, rpc, ws, client, close_code, sent, dg,
                   dg_opens, dg_sent, ws_in, dg_in, c2d, d2c, escaped, c2d_exit>>
    /\ UNCHANGED <<svcVars, dbVars>>

(***************************************************************************)
(* Inputs of the relay.                                                    *)
(***************************************************************************)
\* the identifiers create_token is called with: str(user.id)
Subjects == {"u1", "u2"}
\* the times, in hours, at which tokens are issued
IssueTimes == 0..MaxTime
\* the times at which the handler is entered: soon, or 72 hours later
Times == IssueTimes \cup {JWT_EXPIRE_HOURS + t : t \in IssueTimes}
IssuedTokens == {create_token(u, t) : u \in Subjects, t \in IssueTimes}
RelayTokens ==
    {AbsentToken, Token("malformed", "", 0, "", "")}
    \cup {Token("jwt", sub, exp, key, alg) :
            sub \in {"", "u1"}, exp \in 0..(MaxTime + 1),
            key \in {JWT_SECRET, "other"}, alg \in {JWT_ALGORITHM, "none"}}
Frames == {"f1", "f2"}
TimedResult ==
    Envelope("object", "Results", "object", "one", "hello", "timed", 12,
             FALSE, 0, "true", "absent")
\* the event lines 82-88 build for TimedResult
TimedResult_Event == Event("transcript", "hello", TRUE, FALSE, 12)
RelayMsgs ==
    {TimedResult,
     Envelope("garbage", "", "absent", "absent", "", "absent", 0, FALSE, 0,
              "absent", "absent"),
     Envelope("array", "", "absent", "absent", "", "absent", 0, FALSE, 0,
              "absent", "absent")}

(***************************************************************************)
(* Specification of one relay session.                                     *)
(***************************************************************************)
InitRelay ==
    /\ SvcInit
    /\ DbRest
    /\ \/ \E tok \in RelayTokens, t \in 0..MaxTime, key \in BOOLEAN :
             RelayStart(tok, t, key)
       \/ \E tok \in IssuedTokens, t \in Times, key \in BOOLEAN :
             /\ tok.exp - JWT_EXPIRE_HOURS <= t
             /\ RelayStart(tok, t, key)

NextRelay ==
    \/ RejectMissing
    \/ RejectInvalid
    \/ Accept
    \/ DecodeToken
    \/ ClientLeaves
    \/ SendFallback
    \/ CloseFallback
    \/ ConnectOk
    \/ ConnectFail
    \/ SendReady
    \/ \E f \in Frames : ForwardFrame(f)
    \/ ClientText
    \/ ClientDisconnected
    \/ \E m \in RelayMsgs : UpstreamMessage(m)
    \/ UpstreamCloses
    \/ UpstreamEnded
    \/ WaitReturns
    \/ C2dCancelled
    \/ D2cCancelled
    \/ CloseUpstream
    \/ SendError

SpecRelay == InitRelay /\ [][NextRelay]_vars

(***************************************************************************)
(* Properties of the relay.                                                *)
(***************************************************************************)
\* the token is absent, malformed, wrongly signed, expired or without subject
InvalidToken ==
    \/ token.form # "jwt"
    \/ token.key # JWT_SECRET
    \/ token.alg # JWT_ALGORITHM
    \/ token.exp <= now
    \/ token.sub = ""

NoUpstream == /\ dg = "none"
              /\ dg_opens = 0
              /\ dg_sent = <<>>
              /\ dg_in = <<>>
NoPumps == c2d = "none" /\ d2c = "none"

\* C9: with an absent or invalid token the only thing the handler does is
\* close the connection with code 4001: the connection is never accepted,
\* no upstream session is opened, nothing is sent upstream, no event is
\* sent to the client and no task is started.
C9_InvalidTokenOnlyCloses ==
    InvalidToken =>
        /\ rpc \in {"start", "done"}
        /\ rpc = "done" => (ws = "closed" /\ close_code = 4001)
        /\ rpc = "start" => (ws = "connecting" /\ close_code = 0)
        /\ NoUpstream
        /\ NoPumps
        /\ sent = <<>>
        /\ ws_in = <<>>
        /\ ~escaped

C9_Witness == /\ rpc = "done"
              /\ close_code = 4001
              /\ token.form = "jwt"
              /\ token.key = JWT_SECRET
              /\ token.alg = JWT_ALGORITHM
              /\ token.sub = "u1"
              /\ token.exp <= now

\* C10: with a valid token and no upstream credential the handler sends
\* one event, the fallback event, and nothing else, then closes the client
\* connection and returns; no upstream session is opened, no ready event
\* is sent and no task is started.
FallbackMode == ~InvalidToken /\ ~api_key

C10_FallbackOnly ==
    FallbackMode =>
        /\ NoUpstream
        /\ NoPumps
        /\ ws_in = <<>>
        /\ rpc \in {"start", "fallback", "fallback_close", "done"}
        /\ sent = IF rpc \in {"start", "fallback"} THEN <<>> ELSE <<FallbackEvent>>
        /\ ws = "closed" => (rpc = "done" /\ close_code = 1000)
        /\ rpc = "done" => (ws = "closed" \/ client = "gone")
        /\ (rpc = "done" /\ client = "present") => (ws = "closed" /\ ~escaped)

C10_Witness == /\ FallbackMode
               /\ rpc = "done"
               /\ sent = <<FallbackEvent>>
               /\ ws = "closed"
               /\ close_code = 1000
               /\ client = "present"


\* the call of websockets.connect raised
OpenFailed == dg_opens > 0 /\ dg = "none"

\* C11: when the upstream provider is configured and websockets.connect
\* raises, the handler sends one event, the error event, and returns; no
\* ready event is sent, neither task is started, nothing is sent upstream
\* or read from it, and no exception leaves the handler.
C11_OpenFailureEndsWithError ==
    OpenFailed =>
        /\ api_key
        /\ rpc \in {"error", "done"}
        /\ sent = IF rpc = "done" THEN <<ErrorEvent>> ELSE <<>>
        /\ \A i \in 1..Len(sent) : sent[i].type # "ready"
        /\ NoPumps
        /\ dg_opens = 1
        /\ dg_sent = <<>>
        /\ dg_in = <<>>
        /\ ws_in = <<>>
        /\ ~escaped

C11_Witness == /\ OpenFailed
               /\ rpc = "done"
               /\ sent = <<ErrorEvent>>
               /\ client = "present"

\* C12: once the upstream session has been opened, the handler never gets
\* past the async with block (to the except clause or to its end) with the
\* session not closed, whichever way the block was left.
C12_UpstreamClosedOnExit ==
    (dg # "none" /\ rpc \in {"error", "done"}) => dg = "closed"

\* the block was left by the exception of the ready event
C12_Witness == /\ rpc = "done"
               /\ dg = "closed"
               /\ sent = <<ReadyEvent, ErrorEvent>>
               /\ NoPumps

\* C13: when the handler has finished, the upstream session (if one was
\* opened) and the client connection are closed and no exception has left
\* the handler.
C13_BothClosedNothingEscapes ==
    rpc = "done" =>
        /\ dg \in {"none", "closed"}
        /\ ws = "closed"
        /\ ~escaped


\* client_to_deepgram ended in the handler of WebSocketDisconnect
CleanDisconnect == c2d_exit = "disconnect"
SignalSent == \E i \in 1..Len(dg_sent) : dg_sent[i] = "CloseStream"

\* C14, the state after a step: after a clean disconnect every frame
\* received was forwarded, CloseStream follows the last frame (or its send
\* failed because the session was no longer open), the other task is
\* cancelled or done once the wait has returned, the session is closed when
\* the handler ends and no exception has left the handler.
C14_AfterDisconnect ==
    CleanDisconnect =>
        /\ client = "gone"
        /\ c2d = "done"
        /\ dg_sent \in {ws_in, Append(ws_in, "CloseStream")}
        /\ ~SignalSent => dg # "open"
        /\ rpc \in {"streaming", "closing", "done"}
        /\ rpc # "streaming" => d2c \in {"done", "cancelling", "cancelled"}
        /\ rpc = "done" => dg = "closed"
        /\ ~escaped

\* C14: the step that handles the disconnect sends CloseStream while the
\* session is still open, nothing is sent to a session once it is closed,
\* and every state after a step satisfies C14_AfterDisconnect.
C14_DisconnectSignalsUpstream ==
    [][/\ C14_AfterDisconnect'
       /\ (CleanDisconnect' /\ ~CleanDisconnect /\ dg = "open") =>
              (dg_sent' = Append(dg_sent, "CloseStream") /\ dg' = "open")
       /\ dg = "closed" => dg_sent' = dg_sent]_vars

C14_Witness == /\ CleanDisconnect
               /\ Len(ws_in) >= 2
               /\ dg_sent = Append(ws_in, "CloseStream")
               /\ rpc = "done"
               /\ dg = "closed"
               /\ d2c = "cancelled"

\* the signal was sent although the session was no longer open to it
C14_WitnessSendFailed == /\ CleanDisconnect
                         /\ ~SignalSent
                         /\ rpc = "done"

\* C20: when client_to_deepgram ends on another exception than the
\* disconnect, CloseStream has been sent to a session that is still open.
C20_SignalOnError ==
    (c2d_exit = "error" /\ dg = "open") => SignalSent


(***************************************************************************)
(* Specification of the streaming part of a relay session: the token is    *)
(* valid, the upstream provider is configured and the upstream session     *)
(* sends envelopes of every shape lines 75-88 tell apart.                  *)
(***************************************************************************)
NoFlags(form, type, channel, alts, txt, words, word_start, has_start, start) ==
    Envelope(form, type, channel, alts, txt, words, word_start, has_start,
             start, "absent", "absent")
\* envelopes that carry no transcript
EmptyMsgs ==
    {NoFlags("garbage", "", "absent", "absent", "", "absent", 0, FALSE, 0),
     NoFlags("array", "", "absent", "absent", "", "absent", 0, FALSE, 0),
     NoFlags("object", "Metadata", "absent", "absent", "", "absent", 0, FALSE, 0),
     NoFlags("object", "Results", "absent", "absent", "", "absent", 0, TRUE, 3),
     NoFlags("object", "Results", "null", "absent", "", "absent", 0, TRUE, 3),
     NoFlags("object", "Results", "object", "absent", "", "absent", 0, TRUE, 3),
     NoFlags("object", "Results", "object", "empty", "", "absent", 0, TRUE, 3),
     NoFlags("object", "Results", "object", "one", "", "timed", 12, TRUE, 3)}
\* envelopes with a transcript
TextMsgs ==
    {NoFlags("object", "Results", "object", "one", "hello", words, 12, has_start, 3) :
        words \in {"absent", "empty", "untimed", "timed"}, has_start \in BOOLEAN}
    \cup {Envelope("object", "Results", "object", "one", "hello", "timed", 12,
                   TRUE, 3, is_final, speech_final) :
             is_final \in {"true", "false"}, speech_final \in {"true", "false"}}
EnvMsgs == EmptyMsgs \cup TextMsgs
EnvFrames == {"f1"}
EnvToken == Token("jwt", "u1", MaxTime + 1, JWT_SECRET, JWT_ALGORITHM)

InitEnv ==
    /\ SvcInit
    /\ DbRest
    /\ \E t \in 0..MaxTime : RelayStart(EnvToken, t, TRUE)

NextEnv ==
    \/ Accept
    \/ ClientLeaves
    \/ ConnectOk
    \/ ConnectFail
    \/ SendReady
    \/ \E f \in EnvFrames : ForwardFrame(f)
    \/ ClientText
    \/ ClientDisconnected
    \/ \E m \in EnvMsgs : UpstreamMessage(m)
    \/ UpstreamCloses
    \/ UpstreamEnded
    \/ WaitReturns
    \/ C2dCancelled
    \/ D2cCancelled
    \/ CloseUpstream
    \/ SendError

SpecEnv == InitEnv /\ [][NextEnv]_vars


(***************************************************************************)
(* Properties of deepgram_to_client.                                       *)
(***************************************************************************)
\* a Results envelope whose first alternative has a non-empty transcript
HasTranscript(m) == /\ m.form = "object"
                    /\ m.type = "Results"
                    /\ m.channel = "object"
                    /\ m.alts = "one"
                    /\ m.text # ""
\* the words list has a first entry
HasWords(m) == m.words \in {"untimed", "timed"}
\* the envelopes C15 lists as malformed or irrelevant
Irrelevant(m) == ~HasTranscript(m) \/ m.words = "untimed"

\* the event C16 describes for an envelope
TranscriptEvent(m) ==
    Event("transcript", m.text, m.is_final = "true", m.speech_final = "true",
          IF HasWords(m) THEN m.word_start
          ELSE IF m.has_start THEN m.start ELSE 0)

\* the transcript events among the events sent, in order
RECURSIVE TranscriptsSent(_)
TranscriptsSent(evs) ==
    IF evs = <<>> THEN <<>>
    ELSE IF Head(evs).type = "transcript"
         THEN <<Head(evs)>> \o TranscriptsSent(Tail(evs))
         ELSE TranscriptsSent(Tail(evs))

\* one event for every envelope of msgs that is in the set forwarded
RECURSIVE EventsFor(_, _)
EventsFor(msgs, forwarded) ==
    IF msgs = <<>> THEN <<>>
    ELSE IF Head(msgs) \in forwarded
         THEN <<TranscriptEvent(Head(msgs))>> \o EventsFor(Tail(msgs), forwarded)
         ELSE EventsFor(Tail(msgs), forwarded)
\* the envelopes received
Received == {dg_in[i] : i \in 1..Len(dg_in)}

\* the task can still read from the session and write to the client
PumpUndisturbed == /\ rpc = "streaming"
                   /\ dg = "open"
                   /\ client = "present"
                   /\ c2d = "running"

\* C15: a malformed or irrelevant envelope produces no event and does not
\* end deepgram_to_client: the task is still running after it, and the
\* events sent are those of the well-formed envelopes received.
C15_MalformedSkipped ==
    /\ (PumpUndisturbed /\ dg_in # <<>> /\ Irrelevant(dg_in[Len(dg_in)]))
           => d2c = "running"
    /\ TranscriptsSent(sent) = EventsFor(dg_in, {m \in Received : ~Irrelevant(m)})

\* C16 as stated: every envelope with a transcript produces exactly one
\* event, with the start of the first word when the words list is not
\* empty.
C16_EveryTranscriptForwarded ==
    TranscriptsSent(sent) = EventsFor(dg_in, {m \in Received : HasTranscript(m)})

\* the first entry of a non-empty words list has a start
WordsTimed(m) == HasWords(m) => m.words = "timed"

\* C16 amended: every envelope with a transcript whose words list is
\* absent, empty or begins with an entry that has a start produces exactly
\* one event, with the text, the two flags (false when absent) and the
\* start of the first word or, without words, of the envelope (0 when
\* absent); no other envelope produces an event.
C16_TimedTranscriptForwarded ==
    TranscriptsSent(sent) =
        EventsFor(dg_in, {m \in Received : HasTranscript(m) /\ WordsTimed(m)})

C16_Witness ==
    /\ Len(dg_in) >= 2
    /\ \E i, j \in 1..Len(dg_in) :
          /\ i < j
          /\ HasTranscript(dg_in[i]) /\ dg_in[i].words = "timed"
          /\ dg_in[i].is_final = "true" /\ dg_in[i].speech_final = "false"
          /\ HasTranscript(dg_in[j]) /\ dg_in[j].words = "empty"
          /\ dg_in[j].has_start
    /\ Len(TranscriptsSent(sent)) = 2
    /\ sent[2].start = 12
    /\ sent[3].start = 3


(***************************************************************************)
(* Properties of the token validation.                                     *)
(***************************************************************************)
\* the handshake was rejected
Rejected == rpc = "done" /\ ws = "closed" /\ close_code = 4001

\* C17: a token whose expiry is in the past is rejected whether or not its
\* signature verifies: decode_token raises HTTPException(401) and the relay
\* closes the connection with code 4001 without accepting it.
C17_ExpiredRejected ==
    (token.form = "jwt" /\ token.exp < now) =>
        /\ auth.status \in {0, 401}
        /\ rpc \in {"start", "done"}
        /\ rpc = "done" => Rejected
        /\ sent = <<>>
        /\ NoUpstream

C17_Witness == /\ token.form = "jwt"
               /\ token.exp < now
               /\ token.key # JWT_SECRET
               /\ token.sub # ""
               /\ auth.status = 401
               /\ Rejected

\* the same with a signature that verifies: a token create_token issued
C17_WitnessIssued == /\ token \in IssuedTokens
                     /\ token.exp < now
                     /\ auth = HTTPException(401, "Token expired")
                     /\ Rejected

\* C18: a token issued by create_token(u) and presented before its expiry
\* is accepted: decode_token returns a payload whose subject is u, and the
\* relay accepts the connection.
C18_IssuedTokenRoundTrip ==
    \A u \in Subjects, t \in IssueTimes :
        (token = create_token(u, t) /\ t <= now /\ now < token.exp) =>
            /\ auth.status # 0 => auth = Payload(u)
            /\ TokenAccepted(token, now) /\ token.sub = u
            /\ rpc # "start" => (ws # "connecting" /\ close_code # 4001)

C18_Witness == /\ token = create_token("u2", 1)
               /\ now = JWT_EXPIRE_HOURS
               /\ auth = Payload("u2")
               /\ rpc = "streaming"
               /\ ws = "open"


(***************************************************************************)
(* Properties of the endpoints.                                            *)
(***************************************************************************)
GenericMessages == {M_Busy, M_Auth, M_Generic}

\* C19: every failure of the completion call (a failed status, an
\* exception of the post, an exception of the cleaning) is answered with
\* status 502 and one of the three fixed messages, the one
\* _extract_api_error chooses; the text of the exception, which holds the
\* upstream status and error body, is not in the response.
C19_FailureIsGeneric502 ==
    /\ svc = "raised" =>
          /\ http.status = 502
          /\ http.detail \in GenericMessages
          /\ error.kind = "status" /\ error.status = 429 => http.detail = M_Busy
          /\ error.kind = "status" /\ error.status = 401 =>
                http.detail \in {M_Busy, M_Auth}
          /\ error.kind \in {"transport", "value_error"} => http.detail = M_Generic
    /\ http.status = 502 => svc = "raised"

C19_Witness == /\ svc = "raised"
               /\ error.kind = "status"
               /\ error.status = 500
               /\ Len(error.msg) >= ErrTextMax
               /\ http = Reply(502, M_Generic)


\* C28: the statement after the loop of _call_api is never reached: no
\* call ends with RuntimeError("Max retries exceeded"), every call that
\* raises does so from inside the loop (after at most max_retries posts),
\* and a call throttled on every attempt raises the error of status 429,
\* which the endpoint answers with the busy message.
C28_TrailingRaiseUnreachable ==
    /\ error.kind # "max_retries"
    /\ pc = "raised" => (error.kind \in {"status", "transport"} /\ posts <= max_retries)
    /\ pc = "sleep" => LoopContinues(attempt)
    /\ (pc = "raised" /\ AllThrottled) =>
          /\ posts = max_retries
          /\ error.kind = "status"
          /\ error.status = 429
          /\ SubSeq(ExcStr(error), 1, 5) = W_429 \o <<":", " ">>
          /\ http = Reply(502, M_Busy)

C28_Witness == /\ pc = "raised"
               /\ AllThrottled
               /\ Len(statuses) = max_retries
               /\ Len(sleeps) = max_retries - 1
               /\ http.detail = M_Busy


(***************************************************************************)
(* Properties of the two tasks.                                            *)
(***************************************************************************)
\* asyncio.wait has returned and the pending tasks were cancelled
WaitReturned == rpc \in {"closing", "done"}
Pending(task) == task \in {"running", "cancelling"}
Ended(task) == task \in {"done", "cancelled"}

\* C21: while streaming, the handler can go on as soon as one task has
\* ended, whatever the other task is doing; when it does, one task has
\* ended and the other is cancelled if it had not ended; from then on no
\* task is running, nothing more is sent upstream and no more transcript
\* event is sent to the client.
C21_SiblingCancelled ==
    [][/\ (rpc = "streaming" /\ (Ended(c2d) \/ Ended(d2c))) => ENABLED WaitReturns
       /\ (rpc = "streaming" /\ rpc' = "closing") =>
              /\ c2d = "done" \/ d2c = "done"
              /\ c2d = "running" => c2d' = "cancelling"
              /\ d2c = "running" => d2c' = "cancelling"
       /\ WaitReturned =>
              /\ c2d # "running" /\ d2c # "running"
              /\ dg_sent' = dg_sent
              /\ ws_in' = ws_in
              /\ dg_in' = dg_in
              /\ TranscriptsSent(sent') = TranscriptsSent(sent)]_vars

\* deepgram_to_client was cancelled while the session could still deliver
C21_Witness == /\ rpc = "done"
               /\ c2d_exit = "error"
               /\ d2c = "cancelled"
               /\ client = "present"
               /\ Len(dg_in) < MaxMsgs
               /\ Len(TranscriptsSent(sent)) = 1

\* C22: the upstream session is closed and the handler returns only after
\* both tasks have ended: no task is pending (running, or cancelled and not
\* yet ended) once the session is closed or the handler has returned.
C22_NoPendingTaskAtClose ==
    (rpc = "done" \/ dg = "closed") => (~Pending(c2d) /\ ~Pending(d2c))

\* C24: the ready event is sent at most once, after the upstream session
\* was opened, and it is the first event; no transcript event is sent and
\* no frame is forwarded before it; once it is sent both tasks are started
\* at once, so that a transcript can be forwarded before any frame has been
\* received.
ReadyCount == Cardinality({i \in 1..Len(sent) : sent[i].type = "ready"})
C24_ReadyOnceAndFirst ==
    /\ ReadyCount <= 1
    /\ ReadyCount = 1 => (sent[1].type = "ready" /\ dg # "none" /\ dg_opens = 1)
    /\ (dg_sent # <<>> \/ ws_in # <<>> \/ dg_in # <<>>
          \/ TranscriptsSent(sent) # <<>>) => ReadyCount = 1
    /\ rpc = "ready" => (sent = <<>> /\ NoPumps /\ dg # "none")
    /\ rpc = "streaming" => (ReadyCount = 1 /\ c2d # "none" /\ d2c # "none")
    /\ NoPumps \/ (c2d # "none" /\ d2c # "none")

C24_Witness == /\ sent = <<ReadyEvent, TimedResult_Event>>
               /\ ws_in = <<>>
               /\ client = "present"
               /\ c2d = "running"


(***************************************************************************)
(* Specification of the streaming part of a session with frames and        *)
(* transcripts that can be told apart.                                     *)
(***************************************************************************)
OrderMsgs ==
    {Envelope("object", "Results", "object", "one", txt, "timed", 12, FALSE, 0,
              "true", "absent") : txt \in {"hello", "world"}}
    \cup {Envelope("garbage", "", "absent", "absent", "", "absent", 0, FALSE,
                   0, "absent", "absent")}

NextOrder ==
    \/ Accept
    \/ ClientLeaves
    \/ ConnectOk
    \/ ConnectFail
    \/ SendReady
    \/ \E f \in Frames : ForwardFrame(f)
    \/ ClientText
    \/ ClientDisconnected
    \/ \E m \in OrderMsgs : UpstreamMessage(m)
    \/ UpstreamCloses
    \/ UpstreamEnded
    \/ WaitReturns
    \/ C2dCancelled
    \/ D2cCancelled
    \/ CloseUpstream
    \/ SendError

SpecOrder == InitEnv /\ [][NextOrder]_vars

IsPrefix(a, b) == Len(a) <= Len(b) /\ SubSeq(b, 1, Len(a)) = a
\* a is b with some elements left out
RECURSIVE IsSubseq(_, _)
IsSubseq(a, b) ==
    IF a = <<>> THEN TRUE
    ELSE IF b = <<>> THEN FALSE
    ELSE IF Head(a) = Head(b) THEN IsSubseq(Tail(a), Tail(b))
    ELSE IsSubseq(a, Tail(b))
\* the frames given to dg.send, without the CloseStream message
FramesSent == SelectSeq(dg_sent, LAMBDA x : x # "CloseStream")
TextsSent == [i \in 1..Len(TranscriptsSent(sent)) |-> TranscriptsSent(sent)[i].text]
TextsReceived == [i \in 1..Len(dg_in) |-> dg_in[i].text]

\* C23: the frames sent upstream are, in order and unchanged, the first
\* frames received from the client (none left out, repeated or merged), and
\* the transcript events sent to the client follow the order of the
\* envelopes they were built from, one event at most for an envelope.
C23_OrderPreserved ==
    /\ IsPrefix(FramesSent, ws_in)
    /\ IsSubseq(TextsSent, TextsReceived)
    /\ c2d = "running" => FramesSent = ws_in

C23_Witness == /\ ws_in = <<"f2", "f1">>
               /\ dg_sent = <<"f2", "f1">>
               /\ TextsReceived = <<"world", "hello">>
               /\ TextsSent = <<"world", "hello">>


(***************************************************************************)
(* The rate limiter: _check_rate_limit and its two callers, the endpoints  *)
(* /api/summarize and /api/notes, which both use the key ai:<user id>      *)
(* with window=60 and max_req=5.  A request that is admitted goes on to    *)
(* the completion call (SpecApi).                                          *)
(***************************************************************************)
AI_WINDOW == 60
AI_MAX_REQ == 5

\* [t for t in timestamps if now - t < window]
Prune(timestamps, t, window) == SelectSeq(timestamps, LAMBDA x : t - x < window)
\* a limit that lets one request too many through
LimitReached_Late(n, max_req) == n > max_req
\* len(request_log[client_ip]) >= max_req
LimitReached(n, max_req) == n >= max_req

\* _check_rate_limit(key, window, max_req) at time t, for the timestamps
\* kept for the key: [raised, log]; the pruned list is stored in both cases
_check_rate_limit(timestamps, t, window, max_req) ==
    LET kept == Prune(timestamps, t, window) IN
    IF LimitReached(Len(kept), max_req)
    THEN [raised |-> TRUE, log |-> kept]
    ELSE [raised |-> FALSE, log |-> Append(kept, t)]

RECURSIVE SumLen(_, _)
SumLen(f, ks) == IF ks = {} THEN 0
                 ELSE LET k == CHOOSE x \in ks : TRUE IN
                      Len(f[k]) + SumLen(f, ks \ {k})
\* the number of requests admitted so far, all keys together
AdmittedSoFar == SumLen(admitted, Users)

\* main.py lines 144 and 174: a request of user u to the endpoint e
AiRequest(u, e) ==
    /\ AdmittedSoFar < MaxAdmitted
    /\ LET out == _check_rate_limit(request_log[u], clock, AI_WINDOW, AI_MAX_REQ) IN
       /\ request_log' = [request_log EXCEPT ![u] = out.log]
       /\ verdict' = [verdict EXCEPT ![u] =
                         [status |-> IF out.raised THEN 429 ELSE 200, t |-> clock]]
       /\ IF out.raised
          THEN UNCHANGED <<admitted, served>>
          ELSE /\ admitted' = [admitted EXCEPT ![u] = Append(@, clock)]
               /\ served' = [served EXCEPT ![u] = @ \cup {e}]
    /\ UNCHANGED <<clock, lecVars, svcVars, relayVars>>

\* time passes
TickSteps == {1, AI_WINDOW - 1}
TicksOf(t) == (t \div (AI_WINDOW - 1)) + (t % (AI_WINDOW - 1))
Tick(d) ==
    /\ TicksOf(clock + d) <= MaxTicks
    /\ clock' = clock + d
    /\ UNCHANGED <<request_log, admitted, served, verdict, lecVars, svcVars,
                   relayVars>>

Endpoints == {"summarize", "notes"}

InitRate == SvcInit /\ RelayRest /\ DbRest

NextRate ==
    \/ \E u \in Users, e \in Endpoints : AiRequest(u, e)
    \/ \E d \in TickSteps : Tick(d)

SpecRate == InitRate /\ [][NextRate]_vars

\* the requests of key k admitted in the window of length w that ends at t
InWindow(k, t, w) == {i \in 1..Len(admitted[k]) : admitted[k][i] <= t /\ t - admitted[k][i] < w}

\* C26: for every key, at most max_req admitted requests lie in any window
\* of `window` seconds (the window that ends with any admitted request),
\* whichever of the two endpoints admitted them; a request is rejected only
\* when max_req admitted requests lie in the window that ends with it, so
\* that rejected requests are not counted; the timestamps kept for a key
\* are the last ones admitted for that key.
C26_AtMostMaxPerWindow ==
    \A k \in Users :
        /\ \A i \in 1..Len(admitted[k]) :
              Cardinality(InWindow(k, admitted[k][i], AI_WINDOW)) <= AI_MAX_REQ
        /\ verdict[k].status = 429 =>
              Cardinality(InWindow(k, verdict[k].t, AI_WINDOW)) = AI_MAX_REQ
        /\ verdict[k].status = 200 =>
              (admitted[k] # <<>> /\ admitted[k][Len(admitted[k])] = verdict[k].t)
        /\ Len(request_log[k]) <= AI_MAX_REQ
        /\ \E n \in 0..Len(admitted[k]) :
              request_log[k] = SubSeq(admitted[k], n + 1, Len(admitted[k]))

\* user u1 was admitted five times by the two endpoints, rejected, and
\* admitted again once the window had passed, while u2 was never held up
C26_Witness ==
    /\ Len(admitted["u1"]) = AI_MAX_REQ + 1
    /\ admitted["u1"][AI_MAX_REQ] = 0
    /\ admitted["u1"][AI_MAX_REQ + 1] = AI_WINDOW
    /\ served["u1"] = Endpoints
    /\ verdict["u1"].status = 200
    /\ admitted["u2"] = <<0>>
    /\ verdict["u2"] = [status |-> 200, t |-> 0]


(***************************************************************************)
(* The lectures table and the requests that read or write it               *)
(* (routes/lectures.py, and the lecture_id branch of /api/summarize and    *)
(* /api/notes for an admitted request whose completion call returned).     *)
(***************************************************************************)
Row(owner, title, summary, notes, status) ==
    [owner |-> owner, title |-> title, summary |-> summary, notes |-> notes, status |-> status]
Exists(rows, id) == rows[id].owner # ""

\* a query that selects by id alone
Owned_AnyUser(rows, id, u) == Exists(rows, id)
\* select(Lecture).where(Lecture.id == id, Lecture.user_id == user.id)
\* finds a row
Owned(rows, id, u) == Exists(rows, id) /\ rows[id].owner = u

LectureReply(o, u, id, status, rows) ==
    [op |-> o, user |-> u, id |-> id, status |-> status, rows |-> rows]

\* lines 123-142: a new row with a new id, owned by the caller
create_lecture(u, title) ==
    /\ issued # LectureIds
    /\ LET id == CHOOSE x \in LectureIds : x \notin issued IN
       /\ lectures' = [lectures EXCEPT ![id] = Row(u, title, "", "", "transcribed")]
       /\ issued' = issued \cup {id}
       /\ reply' = LectureReply("create", u, id, 200, {id})
    /\ UNCHANGED <<rateVars, svcVars, relayVars>>

\* lines 97-107: the rows of the caller
list_lectures(u) ==
    /\ reply' = LectureReply("list", u, "", 200,
                             {id \in LectureIds : Owned(lectures, id, u)})
    /\ UNCHANGED <<lectures, issued, rateVars, svcVars, relayVars>>

\* lines 110-120
get_lecture(u, id) ==
    /\ reply' = IF Owned(lectures, id, u)
                THEN LectureReply("get", u, id, 200, {id})
                ELSE LectureReply("get", u, id, 404, {})
    /\ UNCHANGED <<lectures, issued, rateVars, svcVars, relayVars>>

\* lines 145-165
update_lecture(u, id, title) ==
    /\ IF Owned(lectures, id, u)
       THEN /\ lectures' = [lectures EXCEPT ![id].title = title]
            /\ reply' = LectureReply("update", u, id, 200, {id})
       ELSE /\ reply' = LectureReply("update", u, id, 404, {})
            /\ UNCHANGED lectures
    /\ UNCHANGED <<issued, rateVars, svcVars, relayVars>>

\* lines 168-184
delete_lecture(u, id) ==
    /\ IF Owned(lectures, id, u)
       THEN /\ lectures' = [lectures EXCEPT ![id] = NoRow]
            /\ reply' = LectureReply("delete", u, id, 200, {})
       ELSE /\ reply' = LectureReply("delete", u, id, 404, {})
            /\ UNCHANGED lectures
    /\ UNCHANGED <<issued, rateVars, svcVars, relayVars>>

\* main.py lines 148-159 and 178-189: the result is stored in the row if
\* the caller owns it, and returned in both cases
StoreResult(u, e, id) ==
    /\ IF Owned(lectures, id, u)
       THEN lectures' = IF e = "summarize"
                        THEN [lectures EXCEPT ![id].summary = "summary",
                                              ![id].status = "summarizing"]
                        ELSE [lectures EXCEPT ![id].notes = "notes",
                                              ![id].status = "complete"]
       ELSE UNCHANGED lectures
    /\ reply' = LectureReply(e, u, id, 200, {})
    /\ UNCHANGED <<issued, rateVars, svcVars, relayVars>>

Titles == {"t1", "t2"}

InitLectures == SvcInit /\ RelayRest /\ DbRest

NextLectures ==
    \/ \E u \in Users, t \in Titles : create_lecture(u, t)
    \/ \E u \in Users : list_lectures(u)
    \/ \E u \in Users, id \in LectureIds : get_lecture(u, id)
    \/ \E u \in Users, id \in LectureIds, t \in Titles : update_lecture(u, id, t)
    \/ \E u \in Users, id \in LectureIds : delete_lecture(u, id)
    \/ \E u \in Users, e \in Endpoints, id \in LectureIds : StoreResult(u, e, id)

SpecLectures == InitLectures /\ [][NextLectures]_vars

\* the row id belongs to another user than u
Foreign(rows, id, u) == Exists(rows, id) /\ rows[id].owner # u

\* C27: a request of user A never returns a row of another user, leaves
\* every row of another user as it was (neither changed nor deleted), and
\* get, update and delete of such a row answer 404; summarize and notes
\* with its id answer without storing anything.
C27_OwnerOnly ==
    [][LET a == reply'.user IN
       /\ \A id \in LectureIds :
             Foreign(lectures, id, a) => lectures'[id] = lectures[id]
       /\ \A id \in reply'.rows :
             ~Foreign(lectures, id, a) /\ lectures'[id].owner = a
       /\ (reply'.op \in {"get", "update", "delete"}
             /\ Foreign(lectures, reply'.id, a)) =>
                (reply'.status = 404 /\ reply'.rows = {})
       /\ (reply'.op \in Endpoints /\ Foreign(lectures, reply'.id, a)) =>
                lectures' = lectures]_vars

\* u2 asked to delete a row of u1, which is still there
C27_Witness == /\ reply = LectureReply("delete", "u2", "l1", 404, {})
               /\ lectures["l1"] = Row("u1", "t2", "summary", "", "summarizing")
               /\ Exists(lectures, "l2")
               /\ lectures["l2"].owner = "u2"

=============================================================================
